---- MODULE Spec2Model ----
(***************************************************************************)
(* Week3/coding_assistant.py: the Streamlit chat handler (user input ->    *)
(* first completion -> tool dispatch -> second completion -> evaluation -> *)
(* append), the Clear Chat History button, and serialize_message.          *)
(*                                                                         *)
(* A Python dict is a function from its keys to its values.  A message is  *)
(* [rep, fields]: rep = "object" for a Groq response object (it has        *)
(* model_dump, and fields are the fields that were set), rep = "dict" for  *)
(* a plain dictionary.  st.session_state.messages holds the bare dicts.    *)
(***************************************************************************)
EXTENDS Naturals, Sequences, FiniteSets, TLC

\* ------------------------------------------------------------- bounds
\* A turn starts only while the store holds at most MaxHistory messages.
MaxHistory == 2
\* The longest tool_calls list a response carries.
MaxToolCalls == 2

\* ------------------------------------------------------------- values
\* Python's None; no string of the program equals it.
None == "None"

Prompts == {"q1", "q2"}
\* str(e) of an exception a tool body raises; it may be empty.
ExcTexts == {"", "timeout"}
\* str(e) of an exception client.chat.completions.create raises.
ApiExcTexts == {"rate limit reached"}
\* What a successful completion carries as content.
Contents == {None, "", "reply"}
\* What a successful evaluation call returns.
EvalTexts == {"Evaluation: relevant"}
\* Function names the model may put into a tool call.
FunctionNames == {"get_current_datetime", "get_weather"}

available_tools == {"get_current_datetime"}

tools_schema == "tools_schema"

\* json.dumps({"current_datetime": datetime.now().isoformat()})
get_current_datetime == "{\"current_datetime\": \"2024-01-01T00:00:00\"}"

\* Python truthiness of a str-or-None value.
Truthy(v) == v /= None /\ v /= ""

Get(d, key) == IF key \in DOMAIN d THEN d[key] ELSE None

Dict(d) == [rep |-> "dict", fields |-> d]

Object(d) == [rep |-> "object", fields |-> d]

IsPrefix(s, t) == Len(s) <= Len(t) /\ SubSeq(t, 1, Len(s)) = s

Last(s) == s[Len(s)]

\* ---------------------------------------------------------- serializer
\* serialized[key] = d[key], under "if key in d".
CopyIfPresent(serialized, d, key) ==
    IF key \in DOMAIN d THEN (key :> d[key]) @@ serialized ELSE serialized

\* serialized[to] = d[from]: a copy that lands under another key.
CopyCrossed(serialized, d, from, to) ==
    IF from \in DOMAIN d THEN (to :> d[from]) @@ serialized ELSE serialized

\* message.model_dump(exclude_unset=True): the fields that were set.
model_dump(message) == message.fields

\* The branch for Groq response objects: role, content, tool_calls.
serialize_object(msg_dict) ==
    CopyIfPresent([role |-> Get(msg_dict, "role"),
                   content |-> Get(msg_dict, "content")],
                  msg_dict, "tool_calls")

serialize_dict_crossed(message) ==
    CopyCrossed(
        CopyCrossed(
            CopyIfPresent([role |-> Get(message, "role"),
                           content |-> Get(message, "content")],
                          message, "tool_calls"),
            message, "tool_call_id", "name"),
        message, "name", "tool_call_id")

\* The branch for regular dictionary messages.
serialize_dict(message) ==
    CopyIfPresent(
        CopyIfPresent(
            CopyIfPresent([role |-> Get(message, "role"),
                           content |-> Get(message, "content")],
                          message, "tool_calls"),
            message, "tool_call_id"),
        message, "name")

\* A serializer that hands the dumped object on unfiltered.
serialize_message_unfiltered(message) ==
    IF message.rep = "object"
    THEN model_dump(message)
    ELSE serialize_dict(message.fields)

serialize_message(message) ==
    IF message.rep = "object"
    THEN serialize_object(model_dump(message))
    ELSE serialize_dict(message.fields)

\* ------------------------------------------------------------ requests
system_prompt == [role |-> "system", content |-> "You are a specialized Coding Assistant AI"]

\* run_conversation's api_messages: the system prompt, then every stored
\* message serialized.
api_messages(msgs) ==
    <<system_prompt>> \o [i \in 1..Len(msgs) |-> serialize_message(Dict(msgs[i]))]

\* The request run_conversation sends.
run_conversation(call, msgs, tools, tool_choice) ==
    [call |-> call, messages |-> api_messages(msgs), temperature |-> "0.7",
     tools |-> tools, tool_choice |-> tool_choice]

eval_system_prompt(user_query, assistant_response) ==
    [role |-> "system",
     content |-> "Evaluate the assistant's response: User Query: " \o user_query
                 \o " Assistant Response: " \o assistant_response]

\* The request evaluate_response sends.
evaluate_response(user_query, assistant_response) ==
    [call |-> "evaluation",
     messages |-> <<eval_system_prompt(user_query, assistant_response)>>,
     temperature |-> "0.1", tools |-> None, tool_choice |-> None]

\* ------------------------------------------------------- API responses
\* The absent message: run_conversation's None, or a local still unset.
NoMessage == [rep |-> "none", fields |-> <<>>]

IsNone(m) == m.rep = "none"

ToolCall(i, function_name) ==
    [id |-> "call_" \o ToString(i), type |-> "function",
     function |-> [name |-> function_name, arguments |-> "{}"]]

\* The tool_calls lists a response may carry, the empty list included.
ToolCallLists ==
    UNION {{[i \in 1..n |-> ToolCall(i, f[i])] : f \in [1..n -> FunctionNames]} :
           n \in 0..MaxToolCalls}

\* response.choices[0].message without tool calls.
DirectResponses ==
    {Object([role |-> "assistant", content |-> c]) : c \in Contents}

\* response.choices[0].message with a tool_calls list; its content is
\* None or a text.
ToolResponses ==
    {Object([role |-> "assistant", content |-> c, tool_calls |-> tcs]) :
        c \in {None, "reply"}, tcs \in ToolCallLists}

Responses == DirectResponses \cup ToolResponses

\* response_message.tool_calls, as the condition of line 245 reads it.
HasToolCalls(m) ==
    "tool_calls" \in DOMAIN m.fields /\ Len(m.fields.tool_calls) > 0

tool_calls_of(m) == IF HasToolCalls(m) THEN m.fields.tool_calls ELSE <<>>

\* ------------------------------------------------------------- state
VARIABLES
    messages,                     \* st.session_state.messages
    groq_client,                  \* whether get_groq_client() gave a client
    pc,                           \* where the script run stands
    prompt,                       \* the chat input of this run
    response_message,             \* the first completion's result
    final_response,               \* the second completion's result
    full_response_content,
    assistant_message_for_state,
    idx,                          \* position of the tool_calls loop
    evaluation,
    calls,                        \* the requests sent in this run, in order
    errors,                       \* the st.error texts of this run
    pre_turn,                     \* the store when the prompt arrived
    raised,                       \* positions whose tool body raised
    eval_raised,                  \* whether the evaluation call raised
    cleared,                      \* messages the last clear of this run removed
    ser_pc, ser_in, ser_out, ser_again   \* serialize_message applied alone

vars == <<messages, groq_client, pc, prompt, response_message, final_response,
          full_response_content, assistant_message_for_state, idx, evaluation,
          calls, errors, pre_turn, raised, eval_raised, cleared,
          ser_pc, ser_in, ser_out, ser_again>>

ser_vars == <<ser_pc, ser_in, ser_out, ser_again>>

\* The locals of a script run before the input handler has set them.
FreshRun ==
    /\ response_message' = NoMessage
    /\ final_response' = NoMessage
    /\ full_response_content' = ""
    /\ assistant_message_for_state' = NoMessage
    /\ idx' = 0
    /\ evaluation' = None
    /\ calls' = <<>>
    /\ raised' = {}
    /\ eval_raised' = FALSE

Init ==
    /\ messages = <<>>
    /\ groq_client \in BOOLEAN
    /\ pc = "Idle"
    /\ prompt = None
    /\ response_message = NoMessage
    /\ final_response = NoMessage
    /\ full_response_content = ""
    /\ assistant_message_for_state = NoMessage
    /\ idx = 0
    /\ evaluation = None
    /\ calls = <<>>
    /\ errors = <<>>
    /\ pre_turn = <<>>
    /\ raised = {}
    /\ eval_raised = FALSE
    /\ cleared = 0
    /\ ser_pc = "off"
    /\ ser_in = NoMessage
    /\ ser_out = <<>>
    /\ ser_again = <<>>

\* ------------------------------------------------------- the handler
user_message(p) == [role |-> "user", content |-> p]

assistant_message(content) == [role |-> "assistant", content |-> content]

\* Line 301: evaluate and append, or end the run.
AfterCompletion(content, message) ==
    IF Truthy(content) /\ ~IsNone(message) THEN "evaluate" ELSE "Idle"

\* Lines 217-231 with a client: the user message is appended.
Submit(p) ==
    /\ pc = "Idle"
    /\ groq_client
    /\ Len(messages) <= MaxHistory
    /\ messages' = Append(messages, user_message(p))
    /\ prompt' = p
    /\ pre_turn' = messages
    /\ FreshRun
    /\ errors' = <<>>
    /\ cleared' = 0
    /\ pc' = "first"
    /\ UNCHANGED <<groq_client, ser_vars>>

\* Lines 218-220: no client, st.error and st.stop.
SubmitWithoutClient(p) ==
    /\ pc = "Idle"
    /\ ~groq_client
    /\ prompt' = p
    /\ pre_turn' = messages
    /\ FreshRun
    /\ errors' = <<"Groq client not initialized. Please provide API key.">>
    /\ cleared' = 0
    /\ UNCHANGED <<messages, groq_client, pc, ser_vars>>

\* run_conversation's except branch: st.error, return None.
conversation_error(e) == "Error during conversation: " \o e

\* A failure that is also written into the store as an assistant message.
FirstCompletionFails_stores_error(e) ==
    /\ pc = "first"
    /\ calls' = Append(calls, run_conversation("first", messages, tools_schema, "auto"))
    /\ errors' = Append(errors, conversation_error(e))
    /\ response_message' = NoMessage
    /\ messages' = Append(messages, assistant_message(conversation_error(e)))
    /\ pc' = AfterCompletion(full_response_content, assistant_message_for_state)
    /\ UNCHANGED <<groq_client, prompt, final_response,
                   full_response_content, assistant_message_for_state, idx,
                   evaluation, pre_turn, raised,
                   eval_raised, cleared, ser_vars>>

\* Lines 235-243 when the call raises: nothing of lines 245-315 runs.
FirstCompletionFails(e) ==
    /\ pc = "first"
    /\ calls' = Append(calls, run_conversation("first", messages, tools_schema, "auto"))
    /\ errors' = Append(errors, conversation_error(e))
    /\ response_message' = NoMessage
    /\ pc' = AfterCompletion(full_response_content, assistant_message_for_state)
    /\ UNCHANGED <<messages, groq_client, prompt, final_response,
                   full_response_content, assistant_message_for_state, idx,
                   evaluation, pre_turn, raised,
                   eval_raised, cleared, ser_vars>>

\* Lines 235-248 and 290-298 when the call returns resp: the tool branch
\* stores the serialized response, the direct branch takes its content.
FirstCompletionReturns(resp) ==
    /\ pc = "first"
    /\ calls' = Append(calls, run_conversation("first", messages, tools_schema, "auto"))
    /\ response_message' = resp
    /\ IF HasToolCalls(resp)
       THEN /\ messages' = Append(messages, serialize_message(resp))
            /\ idx' = 1
            /\ pc' = "dispatch"
            /\ UNCHANGED <<full_response_content, assistant_message_for_state>>
       ELSE /\ IF Truthy(Get(resp.fields, "content"))
               THEN /\ full_response_content' = resp.fields.content
                    /\ assistant_message_for_state' =
                           Dict(assistant_message(resp.fields.content))
               ELSE UNCHANGED <<full_response_content, assistant_message_for_state>>
            /\ pc' = AfterCompletion(full_response_content',
                                     assistant_message_for_state')
            /\ UNCHANGED <<messages, idx>>
    /\ UNCHANGED <<groq_client, prompt, final_response, evaluation, errors,
                   pre_turn, raised,
                   eval_raised, cleared, ser_vars>>

\* ------------------------------------------------------ tool dispatch
\* Lines 258-263.
tool_message(tool_call_id, function_name, function_response) ==
    [tool_call_id |-> tool_call_id, role |-> "tool", name |-> function_name,
     content |-> function_response]

\* A tool message whose content is the bare str(e).
tool_error_message_bare(tool_call_id, function_name, e) ==
    tool_message(tool_call_id, function_name, e)

\* Lines 265-270.
tool_error_message(tool_call_id, function_name, e) ==
    tool_message(tool_call_id, function_name, "Error: " \o e)

\* The loop of line 250 moves on, or ends and line 276 is next.
NextToolCall ==
    /\ idx' = idx + 1
    /\ pc' = IF idx + 1 > Len(tool_calls_of(response_message))
             THEN "second" ELSE "dispatch"

\* Lines 250-272, one iteration, the tool returning.
ToolCallReturns ==
    /\ pc = "dispatch"
    /\ LET tool_call == tool_calls_of(response_message)[idx]
       IN /\ tool_call.function.name \in available_tools
          /\ messages' = Append(messages,
                 tool_message(tool_call.id, tool_call.function.name,
                              get_current_datetime))
    /\ NextToolCall
    /\ UNCHANGED <<groq_client, prompt, response_message, final_response,
                   full_response_content, assistant_message_for_state,
                   evaluation, calls, errors, pre_turn, raised,
                   eval_raised, cleared, ser_vars>>

\* Lines 250-272, one iteration, the tool body raising.
ToolCallRaises(e) ==
    /\ pc = "dispatch"
    /\ LET tool_call == tool_calls_of(response_message)[idx]
       IN /\ tool_call.function.name \in available_tools
          /\ messages' = Append(messages,
                 tool_error_message(tool_call.id, tool_call.function.name, e))
    /\ raised' = raised \cup {idx}
    /\ NextToolCall
    /\ UNCHANGED <<groq_client, prompt, response_message, final_response,
                   full_response_content, assistant_message_for_state,
                   evaluation, calls, errors, pre_turn,
                   eval_raised, cleared, ser_vars>>

\* Lines 250-254, one iteration, the name not in available_tools: there is
\* no else branch, nothing is appended.
ToolCallSkipped ==
    /\ pc = "dispatch"
    /\ tool_calls_of(response_message)[idx].function.name \notin available_tools
    /\ NextToolCall
    /\ UNCHANGED <<messages, groq_client, prompt, response_message,
                   final_response, full_response_content,
                   assistant_message_for_state, evaluation, calls, errors,
                   pre_turn, raised,
                   eval_raised, cleared, ser_vars>>

\* --------------------------------------------------- second completion
\* A second request that still advertises the tool.
second_request_with_tools(msgs) ==
    run_conversation("second", msgs, tools_schema, "auto")

\* Lines 276-281: tools is left at its default None, tool_choice is "none".
second_request(msgs) == run_conversation("second", msgs, None, "none")

\* Lines 276-283 when the call raises: final_response is None.
SecondCompletionFails(e) ==
    /\ pc = "second"
    /\ calls' = Append(calls, second_request(messages))
    /\ errors' = Append(errors, conversation_error(e))
    /\ final_response' = NoMessage
    /\ pc' = AfterCompletion(full_response_content, assistant_message_for_state)
    /\ UNCHANGED <<messages, groq_client, prompt, response_message,
                   full_response_content, assistant_message_for_state, idx,
                   evaluation, pre_turn, raised,
                   eval_raised, cleared, ser_vars>>

\* Lines 276-289 when the call returns resp.
SecondCompletionReturns(resp) ==
    /\ pc = "second"
    /\ calls' = Append(calls, second_request(messages))
    /\ final_response' = resp
    /\ IF Truthy(Get(resp.fields, "content"))
       THEN /\ full_response_content' = resp.fields.content
            /\ assistant_message_for_state' =
                   Dict(assistant_message(resp.fields.content))
       ELSE UNCHANGED <<full_response_content, assistant_message_for_state>>
    /\ pc' = AfterCompletion(full_response_content', assistant_message_for_state')
    /\ UNCHANGED <<messages, groq_client, prompt, response_message, idx,
                   evaluation, errors, pre_turn, raised,
                   eval_raised, cleared, ser_vars>>

\* ---------------------------------------------------------- evaluation
\* evaluate_response's except branch.
evaluation_failed(e) == "Evaluation failed: " \o e

\* Line 309.
with_evaluation(message, text) ==
    Dict(("evaluation" :> text) @@ message.fields)

\* Lines 303-309, the evaluation call returning text.
EvaluateReturns(text) ==
    /\ pc = "evaluate"
    /\ calls' = Append(calls, evaluate_response(prompt, full_response_content))
    /\ evaluation' = text
    /\ assistant_message_for_state' =
           with_evaluation(assistant_message_for_state, text)
    /\ pc' = "append"
    /\ UNCHANGED <<messages, groq_client, prompt, response_message,
                   final_response, full_response_content, idx, errors,
                   pre_turn, raised,
                   eval_raised, cleared, ser_vars>>

\* An evaluation whose exception escapes: the run ends in the error.
EvaluateFails_uncaught(e) ==
    /\ pc = "evaluate"
    /\ calls' = Append(calls, evaluate_response(prompt, full_response_content))
    /\ errors' = Append(errors, e)
    /\ eval_raised' = TRUE
    /\ pc' = "Idle"
    /\ UNCHANGED <<messages, groq_client, prompt, response_message,
                   final_response, full_response_content,
                   assistant_message_for_state, idx, evaluation,
                   pre_turn, raised, cleared, ser_vars>>

\* Lines 303-309, the evaluation call raising: the marker is the evaluation.
EvaluateFails(e) ==
    /\ pc = "evaluate"
    /\ calls' = Append(calls, evaluate_response(prompt, full_response_content))
    /\ evaluation' = evaluation_failed(e)
    /\ assistant_message_for_state' =
           with_evaluation(assistant_message_for_state, evaluation_failed(e))
    /\ eval_raised' = TRUE
    /\ pc' = "append"
    /\ UNCHANGED <<messages, groq_client, prompt, response_message,
                   final_response, full_response_content, idx, errors,
                   pre_turn, raised, cleared, ser_vars>>

\* A final write that lands on the last stored message.
AppendAssistantMessage_overwrites ==
    /\ pc = "append"
    /\ messages' = [messages EXCEPT ![Len(messages)] =
                       assistant_message_for_state.fields]
    /\ pc' = "Idle"
    /\ UNCHANGED <<groq_client, prompt, response_message, final_response,
                   full_response_content, assistant_message_for_state, idx,
                   evaluation, calls, errors, pre_turn, raised,
                   eval_raised, cleared, ser_vars>>

\* Line 315.
AppendAssistantMessage ==
    /\ pc = "append"
    /\ messages' = Append(messages, assistant_message_for_state.fields)
    /\ pc' = "Idle"
    /\ UNCHANGED <<groq_client, prompt, response_message, final_response,
                   full_response_content, assistant_message_for_state, idx,
                   evaluation, calls, errors, pre_turn, raised,
                   eval_raised, cleared, ser_vars>>

\* ------------------------------------------------------------- sidebar
\* Lines 153-156: the store is emptied and the script reruns.
ClearChatHistory ==
    /\ pc = "Idle"
    /\ messages' = <<>>
    /\ prompt' = None
    /\ pre_turn' = <<>>
    /\ FreshRun
    /\ errors' = <<>>
    /\ cleared' = Len(messages)
    /\ UNCHANGED <<groq_client, pc, ser_vars>>

\* Lines 137-143 and 174: a key typed into the sidebar gives a client.
ProvideApiKey ==
    /\ pc = "Idle"
    /\ ~groq_client
    /\ groq_client' = TRUE
    /\ prompt' = None
    /\ pre_turn' = messages
    /\ FreshRun
    /\ errors' = <<>>
    /\ cleared' = 0
    /\ UNCHANGED <<messages, pc, ser_vars>>

Next ==
    \/ \E p \in Prompts : Submit(p)
    \/ \E p \in Prompts : SubmitWithoutClient(p)
    \/ \E e \in ApiExcTexts : FirstCompletionFails(e)
    \/ \E resp \in Responses : FirstCompletionReturns(resp)
    \/ ToolCallReturns
    \/ \E e \in ExcTexts : ToolCallRaises(e)
    \/ ToolCallSkipped
    \/ \E e \in ApiExcTexts : SecondCompletionFails(e)
    \/ \E resp \in DirectResponses : SecondCompletionReturns(resp)
    \/ \E text \in EvalTexts : EvaluateReturns(text)
    \/ \E e \in ApiExcTexts : EvaluateFails(e)
    \/ AppendAssistantMessage
    \/ ClearChatHistory
    \/ ProvideApiKey

Spec == Init /\ [][Next]_vars

\* ------------------------------------------- serialize_message alone
\* Every key a message of either representation may carry: the five the
\* API takes, the evaluation the handler attaches, and function_call, a
\* field of the response object.
AllFields == {"role", "content", "tool_calls", "tool_call_id", "name",
              "evaluation", "function_call"}

ApiFields == {"role", "content", "tool_calls", "tool_call_id", "name"}

FullMessages ==
    [role : {"assistant", "tool"},
     content : {None, "text"},
     tool_calls : {<<>>, <<ToolCall(1, "get_current_datetime")>>},
     tool_call_id : {"call_1"},
     name : {"get_current_datetime"},
     evaluation : {"Evaluation: relevant"},
     function_call : {None}]

\* Messages of both representations with any subset of the keys set.
SerInputs ==
    {[rep |-> r, fields |-> [k \in S |-> m[k]]] :
        r \in {"object", "dict"}, S \in SUBSET AllFields, m \in FullMessages}

InitSer ==
    /\ messages = <<>>
    /\ groq_client = FALSE
    /\ pc = "Idle"
    /\ prompt = None
    /\ response_message = NoMessage
    /\ final_response = NoMessage
    /\ full_response_content = ""
    /\ assistant_message_for_state = NoMessage
    /\ idx = 0
    /\ evaluation = None
    /\ calls = <<>>
    /\ errors = <<>>
    /\ pre_turn = <<>>
    /\ raised = {}
    /\ eval_raised = FALSE
    /\ cleared = 0
    /\ ser_pc = "input"
    /\ ser_in \in SerInputs
    /\ ser_out = <<>>
    /\ ser_again = <<>>

main_vars == <<messages, groq_client, pc, prompt, response_message,
               final_response, full_response_content,
               assistant_message_for_state, idx, evaluation, calls, errors,
               pre_turn, raised, eval_raised, cleared>>

\* serialize_message(m)
Serialize ==
    /\ ser_pc = "input"
    /\ ser_out' = serialize_message(ser_in)
    /\ ser_pc' = "once"
    /\ UNCHANGED <<main_vars, ser_in, ser_again>>

\* serialize_message(serialize_message(m)): the first output is a dict.
SerializeAgain ==
    /\ ser_pc = "once"
    /\ ser_again' = serialize_message(Dict(ser_out))
    /\ ser_pc' = "twice"
    /\ UNCHANGED <<main_vars, ser_in, ser_out>>

NextSer == Serialize \/ SerializeAgain

SpecSer == InitSer /\ [][NextSer]_vars

\* ------------------------------------------------------------ claims
\* A turn has run to its end: the handler sent a request and the script
\* is back at the chat input.
TurnEnded == pc = "Idle" /\ Len(calls) > 0

CallKinds == [k \in 1..Len(calls) |-> calls[k].call]

\* Where this turn's assistant message with tool_calls sits in the store.
ToolCallsAt == Len(pre_turn) + 2

IsToolMessageFor(m, tool_call) ==
    /\ Get(m, "role") = "tool"
    /\ Get(m, "tool_call_id") = tool_call.id
    /\ Get(m, "name") = tool_call.function.name

\* C1: when the first completion call fails, the store at the end of the
\* turn is the pre-turn store plus the user message, the first request is
\* the only request of the turn, and the tool loop was never entered.
C1_TurnAtomicity ==
    (TurnEnded /\ IsNone(response_message)) =>
        /\ messages = Append(pre_turn, user_message(prompt))
        /\ CallKinds = <<"first">>
        /\ idx = 0
        /\ raised = {}
        /\ IsNone(final_response)
        /\ evaluation = None

C1_Witness ==
    /\ TurnEnded
    /\ IsNone(response_message)
    /\ Len(pre_turn) >= 2
    /\ Len(errors) = 1

\* C2: a turn in which a driver call failed ends with the store equal to
\* the pre-turn store plus the user message; no assistant message with
\* tool_calls and no tool message of the aborted turn remains.
C2_AbortLeavesNoPartialTurn ==
    (TurnEnded /\ Len(errors) > 0) =>
        messages = Append(pre_turn, user_message(prompt))

\* This turn's reply is the last stored message and its content is not empty.
ReplyStored ==
    /\ ~IsNone(assistant_message_for_state)
    /\ Len(messages) > Len(pre_turn) + 1
    /\ Last(messages) = assistant_message_for_state.fields
    /\ Truthy(Last(messages).content)

\* C3: a turn ends only with a stored non-empty reply or a surfaced error.
C3_TurnEndsWithReplyOrError ==
    TurnEnded => (ReplyStored \/ Len(errors) > 0)

\* C4: when the second completion is about to be requested, the messages
\* after this turn's tool_calls message are exactly one tool message per
\* ToolCall, in the order of the calls, with the call's id and name.
C4_EveryToolCallAnswered ==
    pc = "second" =>
        LET tcs == tool_calls_of(response_message)
            tail == SubSeq(messages, ToolCallsAt + 1, Len(messages))
        IN /\ Len(tail) = Len(tcs)
           /\ \A i \in 1..Len(tcs) : IsToolMessageFor(tail[i], tcs[i])

HasSecondCall == \E k \in 1..Len(calls) : calls[k].call = "second"

\* C5: for every tool call whose body raised, a tool message with the
\* call's id and name and a non-empty content is in the store after the
\* tool_calls message, the turn goes on to the second completion, and the
\* second request carries that tool message.
C5_ToolFailureContained ==
    /\ \A i \in raised :
          \E j \in ToolCallsAt + 1..Len(messages) :
              /\ IsToolMessageFor(messages[j], tool_calls_of(response_message)[i])
              /\ Truthy(messages[j].content)
    /\ (raised /= {} /\ pc \notin {"dispatch", "second"}) => HasSecondCall
    /\ \A k \in 1..Len(calls) : \A i \in raised :
          calls[k].call = "second" =>
              \E j \in 1..Len(calls[k].messages) :
                  /\ IsToolMessageFor(calls[k].messages[j],
                                      tool_calls_of(response_message)[i])
                  /\ Truthy(calls[k].messages[j].content)

C5_Witness ==
    /\ TurnEnded
    /\ raised /= {}
    /\ HasSecondCall
    /\ \E j \in 1..Len(messages) :
          Get(messages[j], "role") = "tool" /\ messages[j].content = "Error: "

EvaluationMarkers == {evaluation_failed(e) : e \in ApiExcTexts}

\* C6: when the evaluation call raised, the run goes on to the append with
\* no error surfaced, and at the end of the turn the last stored message is
\* the assistant reply with the non-empty content the completion gave and
\* the failure marker as its evaluation.
C6_EvaluationNonBlocking ==
    eval_raised =>
        /\ pc \in {"append", "Idle"}
        /\ errors = <<>>
        /\ Truthy(full_response_content)
        /\ pc = "Idle" =>
              /\ Len(messages) > Len(pre_turn) + 1
              /\ DOMAIN Last(messages) = {"role", "content", "evaluation"}
              /\ Last(messages).role = "assistant"
              /\ Last(messages).content = full_response_content
              /\ Last(messages).evaluation \in EvaluationMarkers

C6_Witness ==
    /\ eval_raised
    /\ pc = "Idle"
    /\ Last(messages).evaluation = "Evaluation failed: rate limit reached"
    /\ HasSecondCall

OptionalApiFields == {"tool_calls", "tool_call_id", "name"}

\* The output holds role and content, and of `optional` the keys the input
\* holds, each with the input's value (None for an absent role or content).
IsProjection(out, in, optional) ==
    /\ DOMAIN out = {"role", "content"} \cup (DOMAIN in \cap optional)
    /\ \A k \in DOMAIN out : out[k] = Get(in, k)

\* C7, as stated: for both representations the output's keys are role and
\* content together with each of tool_calls, tool_call_id and name that the
\* input holds, each with the input's value.
C7_ProjectionBothRepresentations ==
    ser_pc /= "input" => IsProjection(ser_out, ser_in.fields, OptionalApiFields)

\* C7, amended: that holds for a plain record; for an API-native object the
\* output's keys are role and content together with tool_calls when the
\* object holds it, and tool_call_id and name are dropped like every other
\* key.  In both cases no key outside the five appears.
C7_Projection ==
    ser_pc /= "input" =>
        /\ DOMAIN ser_out \subseteq ApiFields
        /\ IF ser_in.rep = "object"
           THEN IsProjection(ser_out, ser_in.fields, {"tool_calls"})
           ELSE IsProjection(ser_out, ser_in.fields, OptionalApiFields)

C7_Witness ==
    /\ ser_pc = "once"
    /\ ser_in.rep = "object"
    /\ {"name", "tool_call_id", "tool_calls", "evaluation"} \subseteq DOMAIN ser_in.fields
    /\ "content" \notin DOMAIN ser_in.fields
    /\ DOMAIN ser_out = {"role", "content", "tool_calls"}

\* C8: serializing the output of serialize_message again gives the same
\* record, for both representations, with keys missing or extra.
C8_Idempotent ==
    ser_pc = "twice" => ser_again = ser_out

C8_Witness ==
    /\ ser_pc = "twice"
    /\ ser_in.rep = "dict"
    /\ {"name", "evaluation"} \subseteq DOMAIN ser_in.fields
    /\ "tool_call_id" \notin DOMAIN ser_in.fields
    /\ "content" \notin DOMAIN ser_in.fields
    /\ "name" \in DOMAIN ser_again

\* C9: every step leaves the stored messages as an unchanged prefix of the
\* new store, or is the clear action and leaves the store empty.
C9_AppendOnlyBetweenClears ==
    [][\/ IsPrefix(messages, messages')
       \/ ClearChatHistory /\ messages' = <<>>]_vars

\* The store had grown to five messages or more, over more than one turn,
\* and a clear then removed them all.
C9_Witness ==
    /\ pc = "Idle"
    /\ cleared >= 5
    /\ messages = <<>>

RegisteredCalls(tcs) ==
    {i \in 1..Len(tcs) : tcs[i].function.name \in available_tools}

\* C10: the requests of a turn are, in order, the first completion, then
\* the second completion if there is one, then the evaluation if there is
\* one.  The second request is sent without tool schema and with
\* tool_choice "none", after a first response with tool calls and after
\* the tool loop has ended, and it carries every tool result.  The
\* evaluation is requested once, for a non-empty content, and the final
\* assistant message is appended only after it.
C10_CallChain ==
    /\ CallKinds \in {<<>>, <<"first">>, <<"first", "second">>,
                      <<"first", "evaluation">>,
                      <<"first", "second", "evaluation">>}
    /\ \A k \in 1..Len(calls) :
          /\ calls[k].call = "first" =>
                /\ calls[k].tools = tools_schema
                /\ calls[k].tool_choice = "auto"
                /\ calls[k].messages = api_messages(Append(pre_turn, user_message(prompt)))
          /\ calls[k].call = "second" =>
                /\ calls[k].tools = None
                /\ calls[k].tool_choice = "none"
                /\ HasToolCalls(response_message)
                /\ idx = Len(tool_calls_of(response_message)) + 1
                /\ Len(calls[k].messages) = 1 + ToolCallsAt
                       + Cardinality(RegisteredCalls(tool_calls_of(response_message)))
                /\ calls[k].messages =
                       api_messages(SubSeq(messages, 1, Len(calls[k].messages) - 1))
          /\ calls[k].call = "evaluation" =>
                /\ Truthy(full_response_content)
                /\ full_response_content =
                       (IF HasToolCalls(response_message)
                        THEN final_response ELSE response_message).fields.content
                /\ pc \in {"append", "Idle"}
                /\ Len(messages) = Len(calls[k - 1].messages) - 1
                                   + (IF pc = "Idle" THEN 1 ELSE 0)
                /\ pc = "Idle" => "evaluation" \in DOMAIN Last(messages)
    /\ pc = "second" => CallKinds = <<"first">>
    /\ pc = "evaluate" => CallKinds \in {<<"first">>, <<"first", "second">>}
    /\ pc = "append" => Last(calls).call = "evaluation"

C10_Witness ==
    /\ pc = "Idle"
    /\ CallKinds = <<"first", "second", "evaluation">>
    /\ Len(tool_calls_of(response_message)) = 2
    /\ Len(pre_turn) > 0

====
